---- MODULE Spec2Model ----
(***************************************************************************)
(* The multi-objective task planner of agents/planner (solver.py,          *)
(* models.py): dependency graph, topological order, parallel batch,        *)
(* CP-SAT schedule, Pareto frontier and weighted recommendation; and its   *)
(* solver dispatch (availability_checker.py, solver_registry.py,           *)
(* solver_matcher.py): rate-limit availability and task-to-solver match.   *)
(*                                                                         *)
(* Task ids are strings in the program ("T1", "T-2", ...).  Here an id is  *)
(* the rank of the string in Python's string order, so that id comparison  *)
(* (heap tuples, schedule.sort()) is integer comparison.  The insertion    *)
(* order of the request's task list is a separate permutation of the ids.  *)
(* Float scores are kept as exact fractions <<numerator, denominator>>.    *)
(***************************************************************************)
EXTENDS Integers, Sequences, FiniteSets, TLC

VARIABLES request, op, args, ret, env

vars == <<request, op, args, ret, env>>

(***************************************************************************)
(* Bounds of the model and constants of the program.                       *)
(***************************************************************************)
MaxTasks == 3

SHOW_STOPPER == 5
CRITICAL == 4
MAJOR == 3
NORMAL == 2
MINOR == 1

DefaultAvailableHours == 40
DefaultMaxParallel == 15
PlanningWeeks == 4

TaskIds == 1..MaxTasks

\* An id that names no task of the request (a dangling depends_on entry).
UnknownId == MaxTasks + 1

None == "None"

(***************************************************************************)
(* Generic helpers.                                                        *)
(***************************************************************************)
Range(s) == {s[i] : i \in DOMAIN s}

RECURSIVE SumOver(_, _)
SumOver(S, f) ==
    IF S = {} THEN 0
    ELSE LET x == CHOOSE y \in S : TRUE IN f[x] + SumOver(S \ {x}, f)

\* Python's tuple comparison on pairs of integers.
TupleLess(a, b) == a[1] < b[1] \/ (a[1] = b[1] /\ a[2] < b[2])

Perms(n) == {p \in [1..n -> 1..n] : \A i, j \in 1..n : i # j => p[i] # p[j]}

RECURSIVE Gcd(_, _)
Gcd(a, b) == IF b = 0 THEN a ELSE Gcd(b, a % b)

Abs(n) == IF n < 0 THEN 0 - n ELSE n

\* Fractions n/d with d # 0, in lowest terms with a positive denominator.
Frac(n, d) ==
    LET g == Gcd(Abs(n), Abs(d))
        sign == IF d < 0 THEN 0 - 1 ELSE 1
    IN <<(sign * n) \div g, (sign * d) \div g>>
FInt(n) == <<n, 1>>
FAdd(a, b) == Frac(a[1] * b[2] + b[1] * a[2], a[2] * b[2])
FMul(a, b) == Frac(a[1] * b[1], a[2] * b[2])
FLess(a, b) == a[1] * b[2] < b[1] * a[2]
FEq(a, b) == a[1] * b[2] = b[1] * a[2]
FMax(a, b) == IF FLess(a, b) THEN b ELSE a
FMin(a, b) == IF FLess(b, a) THEN b ELSE a

(***************************************************************************)
(* models.py: Task, Goal, PlanRequest.                                     *)
(***************************************************************************)
Task(id, priority, estimate_hours, depends_on, affected_files) ==
    [id |-> id, priority |-> priority, estimate_hours |-> estimate_hours,
     depends_on |-> depends_on, affected_files |-> affected_files,
     due_date |-> <<>>]

Goal(id, tasks) == [id |-> id, tasks |-> tasks]

DefaultWeights == [speed |-> FInt(1), coverage |-> FInt(1), urgency |-> FInt(1)]

PlanRequest(tasks, goals, available_hours, max_parallel, objective_weights) ==
    [tasks |-> tasks, goals |-> goals, available_hours |-> available_hours,
     max_parallel |-> max_parallel, objective_weights |-> objective_weights]

\* TaskPlannerSolver.__init__: self.tasks = {t.id: t for t in request.tasks}
TaskIdsOf(req) == {req.tasks[i].id : i \in DOMAIN req.tasks}

TaskById(req, id) == CHOOSE t \in Range(req.tasks) : t.id = id

(***************************************************************************)
(* solver.py: build_dependency_graph and topological_sort.                 *)
(***************************************************************************)
\* A variant that keeps every depends_on entry, known or not.
build_dependency_graph_unfiltered(req) ==
    [id \in TaskIdsOf(req) |-> Range(TaskById(req, id).depends_on)]

build_dependency_graph(req) ==
    [id \in TaskIdsOf(req) |->
        {dep \in Range(TaskById(req, id).depends_on) : dep \in TaskIdsOf(req)}]

\* A variant that counts the raw depends_on list, duplicates and unknown ids
\* included.
in_degree_of_raw_list(req, graph) ==
    [t \in DOMAIN graph |-> Len(TaskById(req, t).depends_on)]

\* in_degree[node] += 1 for every dep in graph[node]
in_degree_of(req, graph) == [t \in DOMAIN graph |-> Cardinality(graph[t])]

\* A variant whose heap entry does not negate the priority.
heap_entry_not_negated(req, id) == <<TaskById(req, id).priority, id>>

\* The heap entry of a task: (-task.priority.value, task_id)
heap_entry(req, id) == <<0 - TaskById(req, id).priority, id>>

\* heapq.heappop: the least entry of the queue.
heappop(queue) == CHOOSE e \in queue : \A f \in queue \ {e} : TupleLess(e, f)

RECURSIVE kahn_loop(_, _, _, _, _)
kahn_loop(req, graph, in_degree, queue, result) ==
    IF queue = {} THEN result
    ELSE LET top == heappop(queue)
             task_id == top[2]
             dependents == {o \in DOMAIN graph : task_id \in graph[o]}
             degree == [o \in DOMAIN graph |->
                          IF o \in dependents THEN in_degree[o] - 1
                          ELSE in_degree[o]]
             pushed == {heap_entry(req, o) : o \in {d \in dependents : degree[d] = 0}}
         IN kahn_loop(req, graph, degree, (queue \ {top}) \cup pushed,
                      Append(result, task_id))

topological_sort(req) ==
    LET graph == build_dependency_graph(req)
        in_degree == in_degree_of(req, graph)
        queue == {heap_entry(req, t) : t \in {n \in DOMAIN graph : in_degree[n] = 0}}
    IN kahn_loop(req, graph, in_degree, queue, <<>>)

(***************************************************************************)
(* solver.py: detect_file_conflicts and select_parallel_batch.             *)
(***************************************************************************)
detect_file_conflicts(req) ==
    [id \in TaskIdsOf(req) |->
        {o \in TaskIdsOf(req) \ {id} :
            Range(TaskById(req, id).affected_files)
              \cap Range(TaskById(req, o).affected_files) # {}}]

\* A variant that looks at the first affected file only.
has_conflict_first_file_only(task, used_files) ==
    task.affected_files # <<>> /\ task.affected_files[1] \in used_files

\* has_conflict = any(f in used_files for f in task.affected_files)
has_conflict(task, used_files) ==
    \E i \in DOMAIN task.affected_files : task.affected_files[i] \in used_files

\* A variant that ends the walk at the first task with a file conflict.
RECURSIVE batch_loop_stops_at_conflict(_, _, _, _, _)
batch_loop_stops_at_conflict(req, ordered_tasks, max_size, batch, used_files) ==
    IF ordered_tasks = <<>> \/ Len(batch) >= max_size THEN batch
    ELSE LET task == TaskById(req, Head(ordered_tasks))
         IN IF ~has_conflict(task, used_files)
            THEN batch_loop_stops_at_conflict(req, Tail(ordered_tasks), max_size,
                                              Append(batch, task.id),
                                              used_files \cup Range(task.affected_files))
            ELSE batch

\* A variant whose size test is off by one: the batch closes one task early.
RECURSIVE batch_loop_closes_one_early(_, _, _, _, _)
batch_loop_closes_one_early(req, ordered_tasks, max_size, batch, used_files) ==
    IF ordered_tasks = <<>> \/ Len(batch) >= max_size - 1 THEN batch
    ELSE LET task == TaskById(req, Head(ordered_tasks))
         IN IF ~has_conflict(task, used_files)
            THEN batch_loop_closes_one_early(req, Tail(ordered_tasks), max_size,
                                             Append(batch, task.id),
                                             used_files \cup Range(task.affected_files))
            ELSE batch_loop_closes_one_early(req, Tail(ordered_tasks), max_size,
                                             batch, used_files)

RECURSIVE batch_loop(_, _, _, _, _)
batch_loop(req, ordered_tasks, max_size, batch, used_files) ==
    IF ordered_tasks = <<>> \/ Len(batch) >= max_size THEN batch
    ELSE LET task == TaskById(req, Head(ordered_tasks))
         IN IF ~has_conflict(task, used_files)
            THEN batch_loop(req, Tail(ordered_tasks), max_size,
                            Append(batch, task.id),
                            used_files \cup Range(task.affected_files))
            ELSE batch_loop(req, Tail(ordered_tasks), max_size, batch, used_files)

select_parallel_batch(req, ordered_tasks, max_size) ==
    batch_loop(req, ordered_tasks, max_size, <<>>, {})

(***************************************************************************)
(* solver.py: solve_with_cpsat.  The CP-SAT model is the constraint system *)
(* the code builds; the solver returns one of its optimal solutions, or    *)
(* INFEASIBLE.  (The 10 s time limit is far from instances of this size.)  *)
(***************************************************************************)
estimate_of(req) == [t \in TaskIdsOf(req) |-> TaskById(req, t).estimate_hours]

horizon(req) == 2 * SumOver(TaskIdsOf(req), estimate_of(req))

\* The pairs (task, dep_id) that get model.Add(task_starts[task] >= task_ends[dep_id]):
\* the entries of depends_on that are in task_ends.
dependency_constraints(req) ==
    {<<t, dep_id>> \in TaskIdsOf(req) \X TaskIdsOf(req) :
        dep_id \in Range(TaskById(req, t).depends_on)}

\* A variant whose dependency constraint is start >= start of the
\* prerequisite instead of its end.
cp_domain_after_start_of_dep(t, partial, est, constraints, m) ==
    {v \in 0..(m - est[t]) :
        \A c \in constraints :
            /\ (c[1] = t /\ c[2] \in DOMAIN partial) => v >= partial[c[2]]
            /\ (c[2] = t /\ c[1] \in DOMAIN partial) => partial[c[1]] >= v}

\* The start values of task t, given the starts of the tasks assigned so far,
\* that keep end_t <= m and every constraint between t and an assigned task.
cp_domain(t, partial, est, constraints, m) ==
    {v \in 0..(m - est[t]) :
        \A c \in constraints :
            /\ (c[1] = t /\ c[2] = t) => v >= v + est[t]
            /\ (c[1] = t /\ c[2] \in DOMAIN partial) => v >= partial[c[2]] + est[c[2]]
            /\ (c[2] = t /\ c[1] \in DOMAIN partial) => partial[c[1]] >= v + est[t]}

\* The start assignments of the model whose makespan is at most m that extend
\* a partial assignment: a search over the tasks still to assign.
RECURSIVE cp_extend(_, _, _, _, _)
cp_extend(todo, partial, est, constraints, m) ==
    IF todo = {} THEN {partial}
    ELSE LET t == CHOOSE x \in todo : TRUE
         IN UNION {cp_extend(todo \ {t}, partial @@ (t :> v), est, constraints, m) :
                      v \in cp_domain(t, partial, est, constraints, m)}

cp_solutions(ids, est, constraints, m) == cp_extend(ids, <<>>, est, constraints, m)

\* Whether the model has a solution of makespan at most m (the same search,
\* stopped at the first solution).
RECURSIVE cp_search(_, _, _, _, _)
cp_search(todo, partial, est, constraints, m) ==
    IF todo = {} THEN TRUE
    ELSE LET t == CHOOSE x \in todo : TRUE
         IN \E v \in cp_domain(t, partial, est, constraints, m) :
               cp_search(todo \ {t}, partial @@ (t :> v), est, constraints, m)

cp_feasible(ids, est, constraints, m) == cp_search(ids, <<>>, est, constraints, m)

\* model.Minimize(makespan): the least makespan from m on that has a solution.
RECURSIVE cp_minimize(_, _, _, _)
cp_minimize(ids, est, constraints, m) ==
    IF cp_feasible(ids, est, constraints, m) THEN m
    ELSE cp_minimize(ids, est, constraints, m + 1)

\* What solver.Solve(model) may answer.
cp_outcomes(req) ==
    LET ids == TaskIdsOf(req)
        est == estimate_of(req)
        constraints == dependency_constraints(req)
    IN IF ~cp_feasible(ids, est, constraints, horizon(req))
       THEN {[status |-> "INFEASIBLE", starts |-> <<>>, makespan |-> 0]}
       ELSE LET best == cp_minimize(ids, est, constraints, 0)
            IN {[status |-> "OPTIMAL", starts |-> s, makespan |-> best] :
                   s \in cp_solutions(ids, est, constraints, best)}

\* schedule.append((start, task.id)) for task in self.request.tasks
schedule_of(req, starts) == [i \in DOMAIN req.tasks |-> <<starts[req.tasks[i].id], req.tasks[i].id>>]

\* list.sort() on a list of pairs (insertion of each element in turn).
RECURSIVE insert_sorted(_, _)
insert_sorted(sorted, e) ==
    IF sorted = <<>> THEN <<e>>
    ELSE IF TupleLess(e, Head(sorted)) THEN <<e>> \o sorted
    ELSE <<Head(sorted)>> \o insert_sorted(Tail(sorted), e)

RECURSIVE sort_pairs(_)
sort_pairs(seq) ==
    IF seq = <<>> THEN <<>>
    ELSE insert_sorted(sort_pairs(SubSeq(seq, 1, Len(seq) - 1)), seq[Len(seq)])

\* A variant that keys the schedule by start time, so that one task is kept
\* per start time.
task_sequence_of_keyed_by_start(req, starts) ==
    LET schedule == sort_pairs(schedule_of(req, starts))
        kept == SelectSeq(schedule,
                    LAMBDA e : \A f \in Range(schedule) : f[1] = e[1] => ~TupleLess(f, e))
    IN [i \in DOMAIN kept |-> kept[i][2]]

task_sequence_of(req, starts) ==
    LET schedule == sort_pairs(schedule_of(req, starts))
    IN [i \in DOMAIN schedule |-> schedule[i][2]]

(***************************************************************************)
(* solver.py: _calculate_urgency_score and _build_path.                    *)
(***************************************************************************)
\* A task's due_date is <<>> (None) or <<d>>, d the value of (due - today).days
due_date_score(days_until) ==
    IF days_until <= 0 THEN 50
    ELSE IF days_until <= 3 THEN 40
    ELSE IF days_until <= 7 THEN 30
    ELSE IF days_until <= 14 THEN 20
    ELSE 10

priority_map(priority) == 6 * priority

_calculate_urgency_score(req, task_sequence) ==
    IF task_sequence = <<>> THEN FInt(50)
    ELSE LET known == {i \in DOMAIN task_sequence : task_sequence[i] \in TaskIdsOf(req)}
             dated == {i \in known : TaskById(req, task_sequence[i]).due_date # <<>>}
             due_sum == SumOver(dated, [i \in dated |->
                            due_date_score(TaskById(req, task_sequence[i]).due_date[1])])
             prio_sum == SumOver(known, [i \in known |->
                            priority_map(TaskById(req, task_sequence[i]).priority)])
             due_avg == IF dated # {} THEN Frac(due_sum, Cardinality(dated)) ELSE FInt(25)
             priority_avg == IF known # {} THEN Frac(prio_sum, Cardinality(known)) ELSE FInt(15)
             age_score == FInt(IF 2 * Len(task_sequence) < 20 THEN 2 * Len(task_sequence) ELSE 20)
         IN FMin(FInt(100), FAdd(FAdd(due_avg, priority_avg), age_score))

PlanPath(task_sequence, total_hours, goals_completed, goals_partial, speed_score, coverage_score, urgency_score) ==
    [task_sequence |-> task_sequence, total_hours |-> total_hours,
     goals_completed |-> goals_completed, goals_partial |-> goals_partial,
     speed_score |-> speed_score, coverage_score |-> coverage_score,
     urgency_score |-> urgency_score]

\* The ids of the goals, in goal order, that satisfy a test.
RECURSIVE goals_where(_, _)
goals_where(goals, test) ==
    IF goals = <<>> THEN <<>>
    ELSE (IF test[Head(goals).id] THEN <<Head(goals).id>> ELSE <<>>)
           \o goals_where(Tail(goals), test)

\* total_hours / max_hours raises ZeroDivisionError when max_hours is 0.
ZeroDivisionError == [kind |-> "ZeroDivisionError"]

build_path_raises(req) == req.available_hours * PlanningWeeks = 0

_build_path(req, task_sequence, total_hours) ==
    LET completed_tasks == Range(task_sequence)
        goal_ids == {req.goals[i].id : i \in DOMAIN req.goals}
        goal_tasks == [g \in goal_ids |->
                         Range((CHOOSE x \in Range(req.goals) : x.id = g).tasks)]
        is_completed == [g \in goal_ids |-> goal_tasks[g] \subseteq completed_tasks]
        is_partial == [g \in goal_ids |->
                         ~is_completed[g] /\ goal_tasks[g] \cap completed_tasks # {}]
        goals_completed == goals_where(req.goals, is_completed)
        goals_partial == goals_where(req.goals, is_partial)
        max_hours == req.available_hours * PlanningWeeks
        speed_score == FMax(FInt(0), Frac(100 * max_hours - 100 * total_hours, max_hours))
        total_goals == Len(req.goals)
        coverage_score == IF total_goals > 0
                          THEN Frac(100 * Len(goals_completed), total_goals)
                          ELSE FInt(0)
    IN IF build_path_raises(req) THEN ZeroDivisionError
       ELSE PlanPath(task_sequence, total_hours, goals_completed, goals_partial,
                     speed_score, coverage_score,
                     _calculate_urgency_score(req, task_sequence))

\* The list solve_with_cpsat returns for one answer of the CP-SAT solver, or
\* the exception _build_path raises.
solve_with_cpsat(req, outcome) ==
    IF outcome.status = "OPTIMAL"
    THEN IF build_path_raises(req) THEN ZeroDivisionError
         ELSE <<_build_path(req, task_sequence_of(req, outcome.starts),
                            outcome.makespan)>>
    ELSE <<>>

(***************************************************************************)
(* models.py: PlanPath.dominates; solver.py: _compute_pareto_frontier,     *)
(* _select_by_weights, _generate_explanation, solve.                       *)
(***************************************************************************)
\* The three (self_val, other_val) pairs dominates() walks through.
score_pairs(self, other) ==
    <<<<self.speed_score, other.speed_score>>,
      <<self.coverage_score, other.coverage_score>>,
      <<self.urgency_score, other.urgency_score>>>>

\* A variant that asks for a strictly greater score on every objective.
dominates_strictly_everywhere(self, other) ==
    \A k \in 1..3 : FLess(score_pairs(self, other)[k][2], score_pairs(self, other)[k][1])

dominates(self, other) ==
    /\ \A k \in 1..3 : ~FLess(score_pairs(self, other)[k][1], score_pairs(self, other)[k][2])
    /\ \E k \in 1..3 : FLess(score_pairs(self, other)[k][2], score_pairs(self, other)[k][1])

\* The dataclass __eq__ of PlanPath: field by field, floats by value.
path_eq(a, b) ==
    /\ a.task_sequence = b.task_sequence
    /\ a.total_hours = b.total_hours
    /\ a.goals_completed = b.goals_completed
    /\ a.goals_partial = b.goals_partial
    /\ FEq(a.speed_score, b.speed_score)
    /\ FEq(a.coverage_score, b.coverage_score)
    /\ FEq(a.urgency_score, b.urgency_score)

is_dominated(paths, candidate) ==
    \E j \in DOMAIN paths : ~path_eq(paths[j], candidate) /\ dominates(paths[j], candidate)

RECURSIVE frontier_of(_, _)
frontier_of(paths, rest) ==
    IF rest = <<>> THEN <<>>
    ELSE (IF is_dominated(paths, Head(rest)) THEN <<>> ELSE <<Head(rest)>>)
           \o frontier_of(paths, Tail(rest))

_compute_pareto_frontier(paths) ==
    IF paths = <<>> THEN <<>>
    ELSE LET frontier == frontier_of(paths, paths)
         IN IF frontier # <<>> THEN frontier ELSE SubSeq(paths, 1, 1)

\* weights.get(key, 1.0)
weight_get(weights, key) ==
    IF key \in DOMAIN weights THEN weights[key] ELSE FInt(1)

\* score(p) of _select_by_weights
weighted_score(weights, p) ==
    FAdd(FAdd(FMul(p.speed_score, weight_get(weights, "speed")),
              FMul(p.coverage_score, weight_get(weights, "coverage"))),
         FMul(p.urgency_score, weight_get(weights, "urgency")))

\* A variant of max() that keeps the last of the paths of greatest score.
max_by_score_last(weights, paths) ==
    LET best == CHOOSE i \in DOMAIN paths :
                  /\ \A j \in DOMAIN paths :
                        ~FLess(weighted_score(weights, paths[i]), weighted_score(weights, paths[j]))
                  /\ \A j \in (i + 1)..Len(paths) :
                        FLess(weighted_score(weights, paths[j]), weighted_score(weights, paths[i]))
    IN paths[best]

\* max(paths, key=score): the first path, in list order, that no path beats.
max_by_score(weights, paths) ==
    LET best == CHOOSE i \in DOMAIN paths :
                  /\ \A j \in DOMAIN paths :
                        ~FLess(weighted_score(weights, paths[i]), weighted_score(weights, paths[j]))
                  /\ \A j \in 1..(i - 1) :
                        FLess(weighted_score(weights, paths[j]), weighted_score(weights, paths[i]))
    IN paths[best]

\* A variant that keeps a running best from score 0 and so selects nothing
\* when no path scores above 0.
_select_by_weights_above_zero(weights, paths) ==
    IF paths = <<>> \/ ~FLess(FInt(0), weighted_score(weights, max_by_score(weights, paths)))
    THEN <<>>
    ELSE <<max_by_score(weights, paths)>>

\* Optional[PlanPath]: <<>> is None, <<p>> is the path p.
_select_by_weights(weights, paths) ==
    IF paths = <<>> THEN <<>> ELSE <<max_by_score(weights, paths)>>

\* round(x, 1) and the format :.1f, in tenths, ties to even.
round_tenths(f) ==
    LET twice == (20 * f[1]) \div f[2]
        exact == (20 * f[1]) % f[2] = 0
        floor_tenths == twice \div 2
    IN IF twice % 2 = 0 THEN floor_tenths
       ELSE IF exact /\ floor_tenths % 2 = 0 THEN floor_tenths
       ELSE floor_tenths + 1

\* One line of the explanation: its text pattern and the numbers it shows.
Line(pattern, a, b) == [pattern |-> pattern, a |-> a, b |-> b]

_generate_explanation(path, batch) ==
    <<Line("## Planning Decision", 0, 0), Line("", 0, 0)>>
    \o (IF batch # <<>>
        THEN <<Line("### Immediate Batch (a tasks)", Len(batch), 0)>>
             \o [i \in DOMAIN batch |-> Line("- **a**: summary", batch[i], 0)]
             \o <<Line("", 0, 0)>>
        ELSE <<>>)
    \o (IF path # <<>>
        THEN <<Line("### Recommended Path", 0, 0),
               Line("- Total duration: ah", path[1].total_hours, 0),
               Line("- Goals completed: a", Len(path[1].goals_completed), 0),
               Line("- Speed score: a/100", round_tenths(path[1].speed_score), 0),
               Line("- Coverage score: a/100", round_tenths(path[1].coverage_score), 0),
               Line("", 0, 0),
               Line("### Execution Order", 0, 0)>>
             \o [i \in 1..(IF Len(path[1].task_sequence) < 10
                           THEN Len(path[1].task_sequence) ELSE 10) |->
                    Line("a. b: summary", i, path[1].task_sequence[i])]
             \o (IF Len(path[1].task_sequence) > 10
                 THEN <<Line("... and a more", Len(path[1].task_sequence) - 10, 0)>>
                 ELSE <<>>)
        ELSE <<>>)

PlanResult(pareto_paths, recommended_path, immediate_batch, explanation) ==
    [kind |-> "PlanResult", pareto_paths |-> pareto_paths,
     recommended_path |-> recommended_path,
     immediate_batch |-> immediate_batch, explanation |-> explanation]

\* solve(), for one answer of the CP-SAT solver.
solve(req, outcome) ==
    LET ordered == topological_sort(req)
        cpsat_paths == solve_with_cpsat(req, outcome)
        immediate_batch == select_parallel_batch(req, ordered, req.max_parallel)
        pareto_paths == _compute_pareto_frontier(cpsat_paths)
        recommended == _select_by_weights(req.objective_weights, pareto_paths)
        explanation == _generate_explanation(recommended, immediate_batch)
    IN IF outcome.status = "OPTIMAL" /\ build_path_raises(req) THEN ZeroDivisionError
       ELSE PlanResult(pareto_paths, recommended, immediate_batch, explanation)

(***************************************************************************)
(* solver.py: calculate_value_impact.                                      *)
(***************************************************************************)
\* blocks[dep_id].add(task.id) for the known dep_id of task.depends_on
blocks_of(req) ==
    [id \in TaskIdsOf(req) |->
        {t \in TaskIdsOf(req) : id \in Range(TaskById(req, t).depends_on)}]

\* The DFS over blocks from a stack of ids: everything it marks.
RECURSIVE dfs_closure(_, _, _)
dfs_closure(blocks, stack, transitive) ==
    IF stack = {} THEN transitive
    ELSE LET blocked_id == CHOOSE b \in stack : TRUE
         IN IF blocked_id \in transitive
            THEN dfs_closure(blocks, stack \ {blocked_id}, transitive)
            ELSE dfs_closure(blocks, (stack \ {blocked_id}) \cup blocks[blocked_id],
                             transitive \cup {blocked_id})

value_impact_of(req, task) ==
    LET blocks == blocks_of(req)
        direct == blocks[task.id]
        transitive == dfs_closure(blocks, direct, {})
        blocked_hours == SumOver(transitive,
                            [t \in transitive |-> TaskById(req, t).estimate_hours])
        blocked_goals == {req.goals[i].id : i \in
                            {k \in DOMAIN req.goals :
                                transitive \cap Range(req.goals[k].tasks) # {}}}
        max_tasks == Len(req.tasks)
        max_hours == SumOver(TaskIdsOf(req),
                        [t \in TaskIdsOf(req) |-> TaskById(req, t).estimate_hours])
        max_goals == Len(req.goals)
        score == FAdd(FAdd(IF max_tasks > 0
                           THEN Frac(40 * Cardinality(transitive), max_tasks) ELSE FInt(0),
                           IF max_hours > 0
                           THEN Frac(40 * blocked_hours, max_hours) ELSE FInt(0)),
                      IF max_goals > 0
                      THEN Frac(20 * Cardinality(blocked_goals), max_goals) ELSE FInt(0))
    IN [task_id |-> task.id, direct_blockers |-> Cardinality(direct),
        transitive_blockers |-> Cardinality(transitive), blocked_tasks |-> transitive,
        blocked_hours |-> blocked_hours, blocked_goals |-> blocked_goals,
        value_score |-> round_tenths(score), priority |-> task.priority]

calculate_value_impact(req) ==
    [id \in TaskIdsOf(req) |-> value_impact_of(req, TaskById(req, id))]

(***************************************************************************)
(* solver.py: get_highest_value_tasks.                                     *)
(***************************************************************************)
DefaultLimit == 10

\* impacts.values(): the entries in the order the tasks were put in the dict.
impact_values(req) ==
    LET impacts == calculate_value_impact(req)
    IN [i \in DOMAIN req.tasks |-> impacts[req.tasks[i].id]]

\* sorted(..., key=value_score, reverse=True) is stable: an entry goes behind
\* every earlier entry whose score is not smaller.
RECURSIVE insert_by_score(_, _)
insert_by_score(sorted, e) ==
    IF sorted = <<>> THEN <<e>>
    ELSE IF Head(sorted).value_score < e.value_score THEN <<e>> \o sorted
    ELSE <<Head(sorted)>> \o insert_by_score(Tail(sorted), e)

RECURSIVE sorted_by_score(_)
sorted_by_score(seq) ==
    IF seq = <<>> THEN <<>>
    ELSE insert_by_score(sorted_by_score(SubSeq(seq, 1, Len(seq) - 1)), seq[Len(seq)])

\* seq[:limit], a negative limit counting from the end.
slice_to(seq, limit) ==
    LET stop == IF limit >= 0 THEN limit ELSE Len(seq) + limit
    IN SubSeq(seq, 1, IF stop < 0 THEN 0 ELSE IF stop > Len(seq) THEN Len(seq) ELSE stop)

get_highest_value_tasks(req, limit) ==
    slice_to(sorted_by_score(impact_values(req)), limit)

(***************************************************************************)
(* The requests the model explores.                                        *)
(***************************************************************************)
DemoGoals == <<Goal(1, <<1>>), Goal(2, [i \in 1..(MaxTasks - 1) |-> i + 1])>>

MkRequest(order, prio, est, deps, files, max_parallel) ==
    PlanRequest([i \in 1..MaxTasks |->
                    Task(order[i], prio[order[i]], est[order[i]],
                         deps[order[i]], files[order[i]])],
                DemoGoals, DefaultAvailableHours, max_parallel, DefaultWeights)

IdentityOrder == [i \in TaskIds |-> i]

AllOf(x) == [i \in TaskIds |-> x]

\* depends_on lists of at most two entries over the known ids and one unknown
\* id: the task itself, a duplicate and a dangling id included.
DepLists ==
    {<<>>} \cup {<<a>> : a \in 1..UnknownId}
           \cup {<<a, b>> \in (1..UnknownId) \X (1..UnknownId) : a <= b}

\* depends_on lists that name other known tasks, each once.
SimpleDepLists(id) ==
    {<<>>} \cup {<<a>> : a \in TaskIds \ {id}}
           \cup {<<a, b>> \in (TaskIds \ {id}) \X (TaskIds \ {id}) : a < b}

Entries(d) == SumOver(TaskIds, [i \in TaskIds |-> Len(d[i])])

\* The depends_on of all tasks, at most k entries in all.
DepFns(k) == {d \in [TaskIds -> DepLists] : Entries(d) <= k}

SimpleDepFns(k) ==
    {d \in [TaskIds -> UNION {SimpleDepLists(i) : i \in TaskIds}] :
        /\ \A i \in TaskIds : d[i] \in SimpleDepLists(i)
        /\ Entries(d) <= k}

OneEdgeDeps == {d : d \in SimpleDepFns(1)}

TwoEdgeDeps == {d : d \in SimpleDepFns(2)}

ListDeps == {d : d \in DepFns(3)}

FileLists == {<<>>, <<"a">>, <<"b">>, <<"a", "b">>}

FileFns == [TaskIds -> FileLists]

TaskOrders == {o : o \in Perms(MaxTasks)}

\* Insertion order and priority vary.
SliceOrder ==
    {MkRequest(o, p, AllOf(1), d, AllOf(<<>>), DefaultMaxParallel) :
        d \in OneEdgeDeps, o \in TaskOrders,
        p \in [TaskIds -> {NORMAL, MAJOR}]}

\* Priority varies over longer dependency chains.
SlicePriority ==
    {MkRequest(IdentityOrder, p, AllOf(1), d, AllOf(<<>>), DefaultMaxParallel) :
        d \in TwoEdgeDeps, p \in [TaskIds -> {MINOR, NORMAL, CRITICAL}]}

\* Dependency lists vary: cycles, self-dependencies, duplicates, unknown ids.
SliceDeps ==
    {MkRequest(IdentityOrder, AllOf(NORMAL), AllOf(1), d, AllOf(<<>>),
               DefaultMaxParallel) : d \in ListDeps}

\* Estimates vary, zero hours included.
SliceHours ==
    {MkRequest(IdentityOrder, AllOf(NORMAL), e, d, AllOf(<<>>),
               DefaultMaxParallel) :
        d \in TwoEdgeDeps, e \in [TaskIds -> {0, 1, 2}]}

\* Affected files and the parallelism cap vary.
SliceFiles ==
    {MkRequest(IdentityOrder, AllOf(NORMAL), AllOf(1), d, f, m) :
        d \in OneEdgeDeps, f \in FileFns,
        m \in {2, DefaultMaxParallel}}

Init ==
    /\ \/ request \in SliceOrder
       \/ request \in SlicePriority
       \/ request \in SliceDeps
       \/ request \in SliceHours
       \/ request \in SliceFiles
    /\ op = "new"
    /\ args = None
    /\ ret = None
    /\ env = None

TopologicalSort ==
    /\ op = "new"
    /\ op' = "topological_sort"
    /\ args' = None
    /\ ret' = topological_sort(request)
    /\ UNCHANGED <<request, env>>

CalculateValueImpact ==
    /\ op = "new"
    /\ op' = "calculate_value_impact"
    /\ args' = None
    /\ ret' = calculate_value_impact(request)
    /\ UNCHANGED <<request, env>>

Solve ==
    /\ op = "new"
    /\ \E outcome \in cp_outcomes(request) :
          /\ op' = "solve"
          /\ args' = outcome
          /\ ret' = solve(request, outcome)
          /\ UNCHANGED <<request, env>>

Next == TopologicalSort \/ CalculateValueImpact \/ Solve

Spec == Init /\ [][Next]_vars

(***************************************************************************)
(* get_highest_value_tasks on requests whose task list order varies.       *)
(***************************************************************************)
LimitChoices == {0 - 1, 0, 1, 2, MaxTasks, DefaultLimit}

InitValue ==
    /\ request \in SliceOrder
    /\ op = "new"
    /\ args = None
    /\ ret = None
    /\ env = None

GetHighestValueTasks ==
    /\ op = "new"
    /\ \E limit \in LimitChoices :
          /\ op' = "get_highest_value_tasks"
          /\ args' = [limit |-> limit]
          /\ ret' = get_highest_value_tasks(request, limit)
          /\ UNCHANGED <<request, env>>

NextValue == GetHighestValueTasks \/ CalculateValueImpact

SpecValue == InitValue /\ [][NextValue]_vars

(***************************************************************************)
(* Requests of the data model whose goal set and weekly capacity vary:     *)
(* acyclic dependencies, non-negative estimates, no goal or two goals, and *)
(* any integer available_hours.                                            *)
(***************************************************************************)
AvailableHoursChoices == {0 - 1, 0, 1, DefaultAvailableHours}

GoalSets == {<<>>, DemoGoals}

ScoreRequests ==
    {PlanRequest([i \in 1..MaxTasks |-> Task(i, NORMAL, e[i], d[i], <<>>)],
                 g, h, DefaultMaxParallel, DefaultWeights) :
        d \in TwoEdgeDeps, e \in [TaskIds -> {0, 1, 2}], g \in GoalSets,
        h \in AvailableHoursChoices}

InitScores ==
    /\ request \in ScoreRequests
    /\ op = "new"
    /\ args = None
    /\ ret = None
    /\ env = None

NextScores == CalculateValueImpact \/ Solve

SpecScores == InitScores /\ [][NextScores]_vars

(***************************************************************************)
(* select_parallel_batch called on its own: any list of task ids of the    *)
(* request (an id may repeat) and any max_size.                            *)
(***************************************************************************)
BatchRequests ==
    {MkRequest(IdentityOrder, AllOf(NORMAL), AllOf(1), AllOf(<<>>), f,
               DefaultMaxParallel) : f \in FileFns}

OrderedLists == UNION {[1..n -> TaskIds] : n \in 0..MaxTasks}

BatchSizes == {0 - 1, 0, 1, 2, MaxTasks, DefaultMaxParallel}

InitBatch ==
    /\ request \in BatchRequests
    /\ op = "new"
    /\ args = None
    /\ ret = None
    /\ env = None

SelectParallelBatch ==
    /\ op = "new"
    /\ \E ordered_tasks \in OrderedLists, max_size \in BatchSizes :
          /\ op' = "select_parallel_batch"
          /\ args' = [ordered_tasks |-> ordered_tasks, max_size |-> max_size]
          /\ ret' = select_parallel_batch(request, ordered_tasks, max_size)
          /\ UNCHANGED <<request, env>>

DetectFileConflicts ==
    /\ op = "new"
    /\ op' = "detect_file_conflicts"
    /\ args' = None
    /\ ret' = detect_file_conflicts(request)
    /\ UNCHANGED <<request, env>>

NextBatch == SelectParallelBatch \/ DetectFileConflicts

SpecBatch == InitBatch /\ [][NextBatch]_vars

(***************************************************************************)
(* _compute_pareto_frontier and _select_by_weights called as solve() calls *)
(* them, one after the other, on lists of several candidate paths.  The    *)
(* candidates are paths _build_path makes for one request.                 *)
(***************************************************************************)
MaxPaths == 3

PathTasks ==
    [i \in 1..MaxTasks |->
        Task(i, IF i = 1 THEN SHOW_STOPPER ELSE NORMAL, 1, <<>>, <<>>)]

WeightChoices == {FInt(0), FInt(1)}

\* The default mapping, the mapping of the command line, mappings of zeros
\* and ones, and a mapping without the key 'urgency'.
WeightMaps ==
    {DefaultWeights,
     [speed |-> Frac(1, 2), coverage |-> Frac(1, 2), urgency |-> Frac(1, 2)],
     [speed |-> FInt(2), coverage |-> FInt(1)]}
    \cup [{"speed", "coverage", "urgency"} -> WeightChoices]

ParetoRequests ==
    {PlanRequest(PathTasks, DemoGoals, DefaultAvailableHours, DefaultMaxParallel, w) :
        w \in WeightMaps}

PathSequences ==
    {<<1>>, [i \in 1..(MaxTasks - 1) |-> i + 1], IdentityOrder,
     [i \in 1..MaxTasks |-> MaxTasks + 1 - i]}

PathHours == {0, 2 * DefaultAvailableHours}

CandidatePaths ==
    {_build_path(PlanRequest(PathTasks, DemoGoals, DefaultAvailableHours,
                             DefaultMaxParallel, DefaultWeights), seq, h) :
        seq \in PathSequences, h \in PathHours}

PathLists == UNION {[1..n -> CandidatePaths] : n \in 0..MaxPaths}

InitPareto ==
    /\ request \in ParetoRequests
    /\ op = "new"
    /\ args = None
    /\ ret = None
    /\ env = None

ComputeParetoFrontier ==
    /\ op = "new"
    /\ \E paths \in PathLists :
          /\ op' = "_compute_pareto_frontier"
          /\ args' = paths
          /\ ret' = _compute_pareto_frontier(paths)
          /\ UNCHANGED <<request, env>>

\* recommended = self._select_by_weights(pareto_paths)
SelectByWeights ==
    /\ op = "_compute_pareto_frontier"
    /\ op' = "_select_by_weights"
    /\ args' = ret
    /\ ret' = _select_by_weights(request.objective_weights, ret)
    /\ UNCHANGED <<request, env>>

NextPareto == ComputeParetoFrontier \/ SelectByWeights

SpecPareto == InitPareto /\ [][NextPareto]_vars

(***************************************************************************)
(* availability_checker.py: the availability of a solver, from the rate    *)
(* limits of its models kept in Redis.  env is what a call reads from      *)
(* outside the program: whether Redis answers the ping, what every key     *)
(* holds, and the clock.  Only the default account is read, so a key is    *)
(* the normalised model name.  A stored value is a JSON object whose       *)
(* fields may be missing (<<>>) or present (<<v>>).                        *)
(***************************************************************************)
MaxTime == 3

Times == 1..MaxTime

SOLVER_MODELS_keys == {"angrav", "jules", "gemini", "perplexity", "local-slm"}

\* SOLVER_MODELS[solver]: <<>> for None, <<models>> for a list of models.
SOLVER_MODELS(solver) ==
    CASE solver = "angrav" ->
            << <<"gemini-2.0-flash-thinking-exp", "gemini-2.0-flash-exp", "gemini-1.5-pro">> >>
      [] solver = "gemini" -> << <<"gemini-1.5-pro", "gemini-1.5-flash">> >>
      [] OTHER -> <<>>

AllModels == UNION {Range(SOLVER_MODELS(s)[1]) : s \in {"angrav", "gemini"}}

\* model.lower().replace(' ', '-'), keeping alphanumerics and '-': the dots go.
normalized_model(model) ==
    CASE model = "gemini-2.0-flash-thinking-exp" -> "gemini-20-flash-thinking-exp"
      [] model = "gemini-2.0-flash-exp" -> "gemini-20-flash-exp"
      [] model = "gemini-1.5-pro" -> "gemini-15-pro"
      [] model = "gemini-1.5-flash" -> "gemini-15-flash"

Keys == {normalized_model(m) : m \in AllModels}

\* record.get(field, default)
json_get(field, default) == IF field = <<>> THEN default ELSE field[1]

\* What client.get(key) does: returns nothing, returns a JSON object, raises.
StoredValues ==
    {[kind |-> "absent"], [kind |-> "raises"]}
      \cup [kind : {"present"},
            isLimited : {<<>>, <<TRUE>>, <<FALSE>>},
            availableAtUnix : {<<>>} \cup {<<t>> : t \in Times}]

\* get_redis_client() returns None when the ping fails.
get_redis_client(e) == IF e.redis_reachable THEN <<e.store>> ELSE <<>>

get_current_rate_limit(e, model) ==
    LET client == get_redis_client(e)
    IN IF client = <<>> THEN <<>>
       ELSE LET data == client[1][normalized_model(model)]
            IN IF data.kind = "present"
               THEN << [model |-> model,
                        is_limited |-> json_get(data.isLimited, FALSE),
                        available_at_unix |-> json_get(data.availableAtUnix, 0)] >>
               ELSE <<>>

limit_expired_strictly_before_now(limit, now_ms) == limit.available_at_unix < now_ms

\* if limit.available_at_unix <= now_ms
limit_expired(limit, now_ms) == limit.available_at_unix <= now_ms

\* The for loop over the models, from models[i] on; the result is
\* (all_limited, earliest_available) at the loop's end or break.
RECURSIVE models_loop(_, _, _, _)
models_loop(e, models, i, earliest_available) ==
    IF i > Len(models)
    THEN [all_limited |-> TRUE, earliest_available |-> earliest_available]
    ELSE LET limit == get_current_rate_limit(e, models[i])
         IN IF limit = <<>> \/ ~limit[1].is_limited
            THEN [all_limited |-> FALSE, earliest_available |-> earliest_available]
            ELSE IF limit_expired(limit[1], e.now_ms)
            THEN [all_limited |-> FALSE, earliest_available |-> earliest_available]
            ELSE models_loop(e, models, i + 1,
                     IF earliest_available = <<>>
                           \/ limit[1].available_at_unix < earliest_available[1]
                     THEN <<limit[1].available_at_unix>>
                     ELSE earliest_available)

SolverAvailability(solver, available, available_at, reason) ==
    [solver |-> solver, available |-> available,
     available_at |-> available_at, reason |-> reason]

\* available_at is kept in milliseconds; "Rate limited until" stands for the
\* reason that ends with that time or with "unknown".
check_solver_availability(e, solver) ==
    IF solver \notin SOLVER_MODELS_keys \/ SOLVER_MODELS(solver) = <<>>
    THEN IF solver = "perplexity"
         THEN SolverAvailability(solver, FALSE, <<>>, "No Perplexity subscription")
         ELSE SolverAvailability(solver, TRUE, <<>>, "No rate limits")
    ELSE IF get_redis_client(e) = <<>>
    THEN SolverAvailability(solver, TRUE, <<>>, "Redis unavailable, assuming available")
    ELSE LET loop == models_loop(e, SOLVER_MODELS(solver)[1], 1, <<>>)
         IN IF ~loop.all_limited
            THEN SolverAvailability(solver, TRUE, <<>>, "Model available")
            ELSE SolverAvailability(solver, FALSE,
                     IF loop.earliest_available # <<>> /\ loop.earliest_available[1] # 0
                     THEN loop.earliest_available ELSE <<>>,
                     "Rate limited until")

\* solvers = ['angrav', 'jules', 'gemini', 'perplexity', 'local-slm']
get_all_solver_availability(e) ==
    [solver \in SOLVER_MODELS_keys |-> check_solver_availability(e, solver)]

(***************************************************************************)
(* solver_registry.py and solver_matcher.py.  A summary_regex is           *)
(* ^(word|word|...)\b with IGNORECASE, so it matches exactly the summaries *)
(* whose leading word, lowercased, is one of its words.  A tag is          *)
(* [hash, name]: the tag name is '#' + name when hash, else name.  A       *)
(* description is kept as the set of solvers it mentions as '#solver'.     *)
(* The scores are floats in the program and exact fractions here.          *)
(***************************************************************************)
SolverCapability(name, words, supported_file_types, max_complexity) ==
    [name |-> name, summary_regex |-> words,
     supported_file_types |-> supported_file_types,
     max_complexity |-> max_complexity]

\* The registry in the order of the dict.
SOLVER_REGISTRY ==
    << SolverCapability("local-slm", {"quick", "simple", "offline", "local"}, {}, 3),
       SolverCapability("gemini",
           {"analyze", "review", "audit", "assess", "document", "describe", "explain", "plan"},
           {}, 7),
       SolverCapability("perplexity",
           {"research", "investigate", "explore", "compare", "fact-check"}, {}, 5),
       SolverCapability("angrav", {"automate", "browser", "ui", "click", "navigate"}, {}, 6),
       SolverCapability("jules",
           {"implement", "create", "add", "build", "refactor", "fix", "bug"},
           {".py", ".ts", ".js", ".go", ".md", ".sh"}, 10) >>

SOLVERS == {SOLVER_REGISTRY[i].name : i \in DOMAIN SOLVER_REGISTRY}

\* The leading word of a summary, lowercased.
leading_word(summary) ==
    CASE summary = "Implement a new feature" -> "implement"
      [] summary = "Investigate slow queries" -> "investigate"
      [] summary = "Analyze the logs" -> "analyze"
      [] summary = "quick typo" -> "quick"
      [] summary = "Automate the login" -> "automate"
      [] OTHER -> "deploy"

\* solver.summary_regex.search(summary)
summary_regex_search(solver, summary) == leading_word(summary) \in solver.summary_regex

\* Path(f).suffix
suffix(f) ==
    CASE f = ".github/workflows/ci.yml" -> ".yml"
      [] f = "scripts/deploy.sh" -> ".sh"
      [] f = "src/app.py" -> ".py"
      [] OTHER -> ""

MatchTask(summary, priority, estimate_hours, affected_files) ==
    [summary |-> summary, priority |-> priority,
     estimate_hours |-> estimate_hours, affected_files |-> affected_files]

SolverMatch(solver, confidence, reason, fallback) ==
    [solver |-> solver, confidence |-> confidence, reason |-> reason, fallback |-> fallback]

clamp_1_10(n) == IF n < 1 THEN 1 ELSE IF n > 10 THEN 10 ELSE n

priority_boost(priority) ==
    CASE priority = SHOW_STOPPER -> 2
      [] priority = CRITICAL -> 1
      [] priority = MINOR -> 0 - 1
      [] OTHER -> 0

estimate_complexity(task) ==
    LET hours == task.estimate_hours
        base == IF hours <= 1 THEN 2
                ELSE IF hours <= 4 THEN 4
                ELSE IF hours <= 8 THEN 6
                ELSE IF hours <= 16 THEN 8
                ELSE 10
        nfiles == Len(task.affected_files)
        boosted == IF nfiles > 5 THEN (IF base + 2 > 10 THEN 10 ELSE base + 2)
                   ELSE IF nfiles > 2 THEN (IF base + 1 > 10 THEN 10 ELSE base + 1)
                   ELSE base
    IN clamp_1_10(boosted + priority_boost(task.priority))

\* The import of availability_checker fails or succeeds with the way the
\* program was started; a failed import is caught and answered True.
check_availability(e, solver_name) ==
    IF solver_name = "perplexity" THEN FALSE
    ELSE IF ~e.checker_importable THEN TRUE
    ELSE check_solver_availability(e, solver_name).available

\* The history a call finds: whether history_tracker imports, how many
\* completions it loads, and the mean ratio per solver (<<>>: none).
History(importable, completions, by_solver) ==
    [importable |-> importable, completions |-> completions, by_solver |-> by_solver]

DefaultHistoryScore == Frac(7, 10)

get_historical_success(e, solver_name) ==
    IF ~e.history.importable \/ e.history.completions < 3 THEN DefaultHistoryScore
    ELSE IF e.history.by_solver[solver_name] = <<>> THEN DefaultHistoryScore
    ELSE LET ratio == e.history.by_solver[solver_name][1]
         IN IF ~FLess(FInt(1), ratio)
            THEN FAdd(Frac(8, 10), FMul(FAdd(FInt(1), FMul(FInt(0 - 1), ratio)), Frac(2, 10)))
            ELSE FMax(Frac(3, 10),
                      FAdd(Frac(8, 10),
                           FMul(FInt(0 - 1),
                                FMul(FAdd(ratio, FInt(0 - 1)), Frac(3, 10)))))

\* The distinct tags an issue yields.
tag_set(issue) ==
    (IF issue.tags = <<>> THEN {}
     ELSE {t.name : t \in {u \in Range(issue.tags[1]) : u.hash \/ u.name \in SOLVERS}})
      \cup (issue.description \cap SOLVERS)

\* return list(set(tags)): the order of a set of strings is any order.
extract_tags(issue) ==
    LET tags == tag_set(issue)
        n == Cardinality(tags)
    IN {s \in [1..n -> tags] : \A i, j \in 1..n : i # j => s[i] # s[j]}

\* The format :.2f, in hundredths, ties to even.
round_hundredths(f) ==
    LET twice == (200 * f[1]) \div f[2]
        exact == (200 * f[1]) % f[2] = 0
        floor_hundredths == twice \div 2
    IN IF twice % 2 = 0 THEN floor_hundredths
       ELSE IF exact /\ floor_hundredths % 2 = 0 THEN floor_hundredths
       ELSE floor_hundredths + 1

\* A reason: its text pattern and what it shows.
Reason(text, a, b) == [text |-> text, a |-> a, b |-> b]

\* for tag in explicit_tags, from explicit_tags[i] on: the first tag that
\* names a solver and passes availability when required; <<>> when none.
RECURSIVE explicit_tag_loop(_, _, _, _)
explicit_tag_loop(e, explicit_tags, i, require_available) ==
    IF i > Len(explicit_tags) THEN <<>>
    ELSE IF /\ explicit_tags[i] \in SOLVERS
            /\ (~require_available \/ check_availability(e, explicit_tags[i]))
    THEN <<explicit_tags[i]>>
    ELSE explicit_tag_loop(e, explicit_tags, i + 1, require_available)

\* for solver in SOLVERS.values(), from the i-th solver on.
RECURSIVE regex_loop(_, _, _, _)
regex_loop(e, summary, i, require_available) ==
    IF i > Len(SOLVER_REGISTRY) THEN <<>>
    ELSE IF /\ summary_regex_search(SOLVER_REGISTRY[i], summary)
            /\ (~require_available \/ check_availability(e, SOLVER_REGISTRY[i].name))
    THEN <<SOLVER_REGISTRY[i]>>
    ELSE regex_loop(e, summary, i + 1, require_available)

\* The candidates with the availability filter left out.
candidate_solvers_by_complexity_only(e, complexity, require_available) ==
    SelectSeq(SOLVER_REGISTRY, LAMBDA s : s.max_complexity >= complexity)

\* A variant that keeps only the solvers whose max_complexity exceeds the
\* complexity of the task.
candidate_solvers_strictly_above(e, complexity, require_available) ==
    LET fits == SelectSeq(SOLVER_REGISTRY, LAMBDA s : s.max_complexity > complexity)
    IN IF require_available
       THEN SelectSeq(fits, LAMBDA s : check_availability(e, s.name))
       ELSE fits

candidate_solvers(e, complexity, require_available) ==
    LET fits == SelectSeq(SOLVER_REGISTRY, LAMBDA s : s.max_complexity >= complexity)
    IN IF require_available
       THEN SelectSeq(fits, LAMBDA s : check_availability(e, s.name))
       ELSE fits

total_score(e, task, solver, complexity) ==
    LET affected_exts == {suffix(f) : f \in Range(task.affected_files)} \ {""}
        cap_score == IF /\ solver.supported_file_types # {}
                        /\ affected_exts \cap solver.supported_file_types # {}
                     THEN Frac(4, 10) ELSE FInt(0)
        history_score == get_historical_success(e, solver.name)
        complexity_fit == FAdd(FInt(1), Frac(0 - Abs(solver.max_complexity - complexity), 10))
    IN FAdd(FAdd(FMul(cap_score, Frac(3, 10)), FMul(history_score, Frac(4, 10))),
            FMul(complexity_fit, Frac(3, 10)))

\* scored.sort(key=lambda x: x[1], reverse=True): stable, equal scores keep
\* their order.
RECURSIVE insert_scored(_, _)
insert_scored(sorted, x) ==
    IF sorted = <<>> THEN <<x>>
    ELSE IF FLess(Head(sorted)[2], x[2]) THEN <<x>> \o sorted
    ELSE <<Head(sorted)>> \o insert_scored(Tail(sorted), x)

RECURSIVE sort_scored(_)
sort_scored(seq) ==
    IF seq = <<>> THEN <<>>
    ELSE insert_scored(sort_scored(SubSeq(seq, 1, Len(seq) - 1)), seq[Len(seq)])

\* match_solver after extract_tags has returned explicit_tags.
match_solver(e, task, explicit_tags, require_available) ==
    LET by_tag == explicit_tag_loop(e, explicit_tags, 1, require_available)
        by_regex == regex_loop(e, task.summary, 1, require_available)
        complexity == estimate_complexity(task)
        candidates == candidate_solvers(e, complexity, require_available)
        scored == sort_scored([i \in DOMAIN candidates |->
                      <<candidates[i], total_score(e, task, candidates[i], complexity)>>])
    IN IF by_tag # <<>>
       THEN SolverMatch(by_tag[1], FInt(1), Reason("explicit tag #a", by_tag[1], 0), <<>>)
       ELSE IF by_regex # <<>>
       THEN SolverMatch(by_regex[1].name, Frac(9, 10),
                        Reason("summary regex match on 'a'", by_regex[1].name, 0), <<>>)
       ELSE IF candidates = <<>>
       THEN SolverMatch("jules", Frac(3, 10), Reason("fallback to most capable", 0, 0),
                        <<"gemini">>)
       ELSE SolverMatch(scored[1][1].name, scored[1][2],
                        Reason("capability match (comp: a, score: b)", complexity,
                               round_hundredths(scored[1][2])),
                        IF Len(scored) > 1 THEN <<scored[2][1].name>> ELSE <<>>)

(***************************************************************************)
(* The availability calls: each behaviour is one call in one environment.  *)
(***************************************************************************)
MkEnv(redis_reachable, store, now_ms, checker_importable, history) ==
    [redis_reachable |-> redis_reachable, store |-> store, now_ms |-> now_ms,
     checker_importable |-> checker_importable, history |-> history]

NoHistory == History(TRUE, 0, [s \in SOLVERS |-> <<>>])

EmptyStore == [k \in Keys |-> [kind |-> "absent"]]

\* A name SOLVER_MODELS does not hold.
UnknownSolver == "copilot"

AvailabilityEnvs ==
    {MkEnv(TRUE, store, now_ms, TRUE, NoHistory) : store \in [Keys -> StoredValues], now_ms \in Times}
      \cup {MkEnv(FALSE, EmptyStore, now_ms, TRUE, NoHistory) : now_ms \in Times}

InitAvailability ==
    /\ request = None
    /\ op = "new"
    /\ args = None
    /\ ret = None
    /\ env \in AvailabilityEnvs

CheckSolverAvailability ==
    /\ op = "new"
    /\ \E solver \in SOLVER_MODELS_keys \cup {UnknownSolver} :
          /\ op' = "check_solver_availability"
          /\ args' = [solver |-> solver]
          /\ ret' = check_solver_availability(env, solver)
          /\ UNCHANGED <<request, env>>

GetAllSolverAvailability ==
    /\ op = "new"
    /\ op' = "get_all_solver_availability"
    /\ args' = None
    /\ ret' = get_all_solver_availability(env)
    /\ UNCHANGED <<request, env>>

NextAvailability == CheckSolverAvailability \/ GetAllSolverAvailability

SpecAvailability == InitAvailability /\ [][NextAvailability]_vars

(***************************************************************************)
(* The matcher calls: each behaviour is one call on one task and issue in  *)
(* one environment.                                                        *)
(***************************************************************************)
MaxTags == 2

Tag(hash, name) == [hash |-> hash, name |-> name]

\* '#jules', 'gemini', '#angrav', '#perplexity', '#copilot' (no such solver)
\* and 'urgent' (no solver hint at all).
TagChoices ==
    {Tag(TRUE, "jules"), Tag(FALSE, "gemini"), Tag(TRUE, "angrav"),
     Tag(TRUE, "perplexity"), Tag(TRUE, UnknownSolver), Tag(FALSE, "urgent")}

TagLists == UNION {[1..n -> TagChoices] : n \in 0..MaxTags}

\* issue['tags'] (<<>>: no such key) and the '#solver' mentions of
\* issue['description'].
Issue(tags, description) == [tags |-> tags, description |-> description]

Issues ==
    {Issue(tags, description) :
        tags \in {<<>>} \cup {<<l>> : l \in TagLists},
        description \in {{}, {"gemini"}}}

MatchTasks ==
    {MatchTask("Deploy script", NORMAL, 2, <<>>),
     MatchTask("Deploy script", SHOW_STOPPER, 40, <<>>),
     MatchTask("Update the CI/CD pipeline", CRITICAL, 4,
               <<".github/workflows/ci.yml", "scripts/deploy.sh">>),
     MatchTask("Implement a new feature", MAJOR, 4, <<"src/app.py">>),
     MatchTask("Investigate slow queries", NORMAL, 4, <<>>),
     MatchTask("Analyze the logs", MINOR, 1, <<>>),
     MatchTask("Database performance improvements", MAJOR, 12, <<>>)}

MatchRequest(task, issue, require_available) ==
    [task |-> task, issue |-> issue, require_available |-> require_available]

MatchRequests ==
    {MatchRequest(task, issue, require_available) :
        task \in MatchTasks, issue \in Issues, require_available \in BOOLEAN}

\* A record that limits its model until after now_ms.
LimitedUntil(t) == [kind |-> "present", isLimited |-> <<TRUE>>, availableAtUnix |-> <<t>>]

\* Nothing stored; every read raising; every model limited; the models of
\* angrav limited and gemini-1.5-flash free.
MatcherStores ==
    {EmptyStore,
     [k \in Keys |-> [kind |-> "raises"]],
     [k \in Keys |-> LimitedUntil(MaxTime)],
     [k \in Keys |-> IF k = normalized_model("gemini-1.5-flash")
                     THEN [kind |-> "absent"] ELSE LimitedUntil(MaxTime)]}

Histories ==
    {NoHistory,
     History(TRUE, 3, [s \in SOLVERS |->
                          IF s = "jules" THEN <<Frac(3, 2)>>
                          ELSE IF s = "gemini" THEN <<Frac(1, 2)>> ELSE <<>>])}

MatcherEnvs ==
    {MkEnv(TRUE, store, 1, importable, history) :
        store \in MatcherStores, importable \in BOOLEAN, history \in Histories}
      \cup {MkEnv(FALSE, EmptyStore, 1, importable, history) :
               importable \in BOOLEAN, history \in Histories}

InitMatcher ==
    /\ request \in MatchRequests
    /\ op = "new"
    /\ args = None
    /\ ret = None
    /\ env \in MatcherEnvs

ExtractTags ==
    /\ op = "new"
    /\ \E tags \in extract_tags(request.issue) :
          /\ op' = "extract_tags"
          /\ args' = None
          /\ ret' = tags
          /\ UNCHANGED <<request, env>>

MatchSolver ==
    /\ op = "new"
    /\ \E explicit_tags \in extract_tags(request.issue) :
          /\ op' = "match_solver"
          /\ args' = [explicit_tags |-> explicit_tags]
          /\ ret' = match_solver(env, request.task, explicit_tags, request.require_available)
          /\ UNCHANGED <<request, env>>

CheckAvailability ==
    /\ op = "new"
    /\ \E solver_name \in SOLVERS :
          /\ op' = "check_availability"
          /\ args' = [solver |-> solver_name]
          /\ ret' = check_availability(env, solver_name)
          /\ UNCHANGED <<request, env>>

NextMatcher == ExtractTags \/ MatchSolver \/ CheckAvailability \/ CheckSolverAvailability

SpecMatcher == InitMatcher /\ [][NextMatcher]_vars

(***************************************************************************)
(* estimate_complexity on its own: one call on one task.                   *)
(***************************************************************************)
MaxFiles == 6

HourChoices == {0, 1, 2, 4, 5, 8, 9, 16, 17, 40}

Priorities == {SHOW_STOPPER, CRITICAL, MAJOR, NORMAL, MINOR}

ComplexityTasks ==
    {MatchTask("Deploy script", priority, hours, [i \in 1..n |-> "src/app.py"]) :
        priority \in Priorities, hours \in HourChoices, n \in 0..MaxFiles}

InitComplexity ==
    /\ request \in {[task |-> task] : task \in ComplexityTasks}
    /\ op = "new"
    /\ args = None
    /\ ret = None
    /\ env = None

EstimateComplexity ==
    /\ op = "new"
    /\ op' = "estimate_complexity"
    /\ args' = None
    /\ ret' = estimate_complexity(request.task)
    /\ UNCHANGED <<request, env>>

NextComplexity == EstimateComplexity

SpecComplexity == InitComplexity /\ [][NextComplexity]_vars

(***************************************************************************)
(* history_tracker.py: calibration of estimates from the completion log.   *)
(* The completions are what load_history reads from the history file.      *)
(* std_dev is the square root of the variance kept here.                   *)
(***************************************************************************)
MaxCompletions == 3

TaskCompletion(estimated_hours, actual_hours, solver) ==
    [estimated_hours |-> estimated_hours, actual_hours |-> actual_hours, solver |-> solver]

\* sum(rs) for a list of fractions
RECURSIVE FSum(_)
FSum(rs) == IF rs = <<>> THEN FInt(0) ELSE FAdd(Head(rs), FSum(Tail(rs)))

\* sum(rs) / len(rs)
FMean(rs) == FMul(FSum(rs), Frac(1, Len(rs)))

\* The ratios actual / estimated of the completions with a positive estimate.
ratios_of(completions) ==
    LET counted == SelectSeq(completions, LAMBDA c : c.estimated_hours > 0)
    IN [i \in DOMAIN counted |-> Frac(counted[i].actual_hours, counted[i].estimated_hours)]

CalibrationStats(sample_size, avg_ratio, variance, by_solver) ==
    [sample_size |-> sample_size, avg_ratio |-> avg_ratio,
     variance |-> variance, by_solver |-> by_solver]

\* by_solver maps the solvers with a counted completion to their mean ratio.
calculate_calibration(completions) ==
    IF completions = <<>>
    THEN CalibrationStats(0, FInt(1), FInt(0), <<>>)
    ELSE LET ratios == ratios_of(completions)
             avg_ratio == IF ratios # <<>> THEN FMean(ratios) ELSE FInt(1)
             deviation(r) == FAdd(r, FMul(FInt(0 - 1), avg_ratio))
             variance == IF Len(ratios) > 1
                         THEN FMean([i \in DOMAIN ratios |->
                                        FMul(deviation(ratios[i]), deviation(ratios[i]))])
                         ELSE FInt(0)
             counted == SelectSeq(completions, LAMBDA c : c.estimated_hours > 0)
             solvers == {counted[i].solver : i \in DOMAIN counted}
         IN CalibrationStats(Len(completions), avg_ratio, variance,
                [s \in solvers |->
                    FMean(ratios_of(SelectSeq(counted, LAMBDA c : c.solver = s)))])

\* solver: <<>> for None, <<name>> for a name.
calibrate_estimate(completions, original_hours, solver) ==
    LET stats == calculate_calibration(completions)
    IN IF stats.sample_size < 3 THEN FInt(original_hours)
       ELSE LET ratio == IF solver # <<>> /\ solver[1] \in DOMAIN stats.by_solver
                         THEN stats.by_solver[solver[1]]
                         ELSE stats.avg_ratio
            IN FMul(FInt(original_hours), ratio)

(***************************************************************************)
(* The calibration calls: one call on one history.                         *)
(***************************************************************************)
CompletionChoices ==
    {TaskCompletion(estimated_hours, actual_hours, solver) :
        estimated_hours \in {0, 1, 2}, actual_hours \in {0, 1, 30},
        solver \in {"jules", "gemini"}}

CompletionLists == UNION {[1..n -> CompletionChoices] : n \in 0..MaxCompletions}

CalibrationRequest(completions, original_hours, solver) ==
    [completions |-> completions, original_hours |-> original_hours, solver |-> solver]

InitCalibration ==
    /\ request \in {CalibrationRequest(completions, original_hours, solver) :
                       completions \in CompletionLists,
                       original_hours \in {0, 1, 4},
                       solver \in {<<>>, <<"jules">>, <<"angrav">>}}
    /\ op = "new"
    /\ args = None
    /\ ret = None
    /\ env = None

CalculateCalibration ==
    /\ op = "new"
    /\ op' = "calculate_calibration"
    /\ args' = None
    /\ ret' = calculate_calibration(request.completions)
    /\ UNCHANGED <<request, env>>

CalibrateEstimate ==
    /\ op = "new"
    /\ op' = "calibrate_estimate"
    /\ args' = None
    /\ ret' = calibrate_estimate(request.completions, request.original_hours, request.solver)
    /\ UNCHANGED <<request, env>>

NextCalibration == CalculateCalibration \/ CalibrateEstimate

SpecCalibration == InitCalibration /\ [][NextCalibration]_vars

(***************************************************************************)
(* Vocabulary of the properties.                                           *)
(***************************************************************************)
\* The prerequisites of a task that are tasks of the request.
KnownDeps(req, id) == Range(TaskById(req, id).depends_on) \cap TaskIdsOf(req)

RECURSIVE DepClosure(_, _)
DepClosure(edges, k) ==
    IF k = 0 THEN edges
    ELSE LET c == DepClosure(edges, k - 1)
         IN c \cup {<<e[1], f[2]>> : <<e, f>> \in {x \in c \X edges : x[1][2] = x[2][1]}}

\* Some task reaches itself along known dependency edges.
HasCycle(req) ==
    LET edges == {<<t, d>> \in TaskIdsOf(req) \X TaskIdsOf(req) : d \in KnownDeps(req, t)}
    IN \E t \in TaskIdsOf(req) : <<t, t>> \in DepClosure(edges, Len(req.tasks))

HasUnknownDep(req) ==
    \E t \in TaskIdsOf(req) : ~(Range(TaskById(req, t).depends_on) \subseteq TaskIdsOf(req))

HasDuplicateDep(req) ==
    \E t \in TaskIdsOf(req) :
        \E i, j \in DOMAIN TaskById(req, t).depends_on :
            i # j /\ TaskById(req, t).depends_on[i] = TaskById(req, t).depends_on[j]

\* Every task id of the request exactly once, and nothing else.
IsPermutationOfTasks(req, seq) ==
    /\ Len(seq) = Cardinality(TaskIdsOf(req))
    /\ Range(seq) = TaskIdsOf(req)

\* The Pareto paths and the recommended path of a PlanResult.
PathsOf(result) == Range(result.pareto_paths) \cup Range(result.recommended_path)

\* The position of a task in the request's task list (its insertion order).
InsertionIndex(req, id) == CHOOSE i \in DOMAIN req.tasks : req.tasks[i].id = id

\* The request with the depends_on entries that name no task removed.
WithoutUnknownDeps(req) ==
    [req EXCEPT !.tasks =
        [i \in DOMAIN req.tasks |->
            [req.tasks[i] EXCEPT !.depends_on =
                SelectSeq(req.tasks[i].depends_on, LAMBDA d : d \in TaskIdsOf(req))]]]

(***************************************************************************)
(* C1: in every path solve() returns for an acyclic request, no task       *)
(* precedes one of its own known prerequisites: whenever A comes before B  *)
(* in task_sequence, B is not in A.depends_on.                             *)
(***************************************************************************)
C1_NoTaskBeforePrerequisite ==
    (op = "solve" /\ ~HasCycle(request)) =>
        \A p \in PathsOf(ret) :
            \A i, j \in DOMAIN p.task_sequence :
                i < j => p.task_sequence[j] \notin KnownDeps(request, p.task_sequence[i])

(***************************************************************************)
(* C2: for a request whose known dependency edges contain a cycle, solve() *)
(* fails with a cycle error and the caller receives no PlanResult.         *)
(***************************************************************************)
C2_CycleIsReported ==
    (op = "solve" /\ HasCycle(request)) => ret.kind = "CycleError"

(***************************************************************************)
(* C3: every task of the immediate batch of solve() has each of its known  *)
(* prerequisites in the batch (the caller of solve() marks none complete). *)
(***************************************************************************)
C3_BatchIsDependencyClosed ==
    op = "solve" =>
        \A i \in DOMAIN ret.immediate_batch :
            KnownDeps(request, ret.immediate_batch[i]) \subseteq Range(ret.immediate_batch)

(***************************************************************************)
(* C5: for an acyclic request, the task_sequence of every Pareto path and  *)
(* of the recommended path holds every task id of the request exactly     *)
(* once and no other id.                                                   *)
(***************************************************************************)
C5_PathIsPermutation ==
    (op = "solve" /\ ~HasCycle(request)) =>
        \A p \in PathsOf(ret) : IsPermutationOfTasks(request, p.task_sequence)

\* An acyclic request with a dependency, solved to a recommended path in which
\* two tasks were given the same start time.
C5_Witness ==
    /\ op = "solve"
    /\ ~HasCycle(request)
    /\ \E t \in TaskIdsOf(request) : KnownDeps(request, t) # {}
    /\ ret.recommended_path # <<>>
    /\ ret.pareto_paths # <<>>
    /\ \E t, u \in TaskIdsOf(request) : t # u /\ args.starts[t] = args.starts[u]

(***************************************************************************)
(* C6: for an acyclic request, topological_sort() returns every task id    *)
(* exactly once, each known prerequisite before every task that depends on *)
(* it; duplicate and unknown depends_on entries keep no task out.          *)
(***************************************************************************)
C6_TopologicalOrder ==
    (op = "topological_sort" /\ ~HasCycle(request)) =>
        /\ IsPermutationOfTasks(request, ret)
        /\ \A i, j \in DOMAIN ret :
              ret[j] \in KnownDeps(request, ret[i]) => j < i

\* An acyclic request with a real edge, a duplicate entry and an unknown id.
C6_Witness ==
    /\ op = "topological_sort"
    /\ ~HasCycle(request)
    /\ HasDuplicateDep(request)
    /\ HasUnknownDep(request)
    /\ \E t \in TaskIdsOf(request) : KnownDeps(request, t) # {}
    /\ Len(ret) = Len(request.tasks)

(***************************************************************************)
(* C7.  The tasks that are ready when the k-th task is emitted: not yet    *)
(* emitted, every known prerequisite emitted.                              *)
(***************************************************************************)
EmittedBefore(order, k) == {order[i] : i \in 1..(k - 1)}

ReadyAt(req, order, k) ==
    {t \in TaskIdsOf(req) \ EmittedBefore(order, k) :
        KnownDeps(req, t) \subseteq EmittedBefore(order, k)}

\* C7 as stated: the task emitted next is a ready task of highest priority,
\* and among the ready tasks of that priority the first in the insertion
\* order of the request's task list.
C7_TieByInsertionOrder ==
    op = "topological_sort" =>
        \A k \in DOMAIN ret :
            /\ ret[k] \in ReadyAt(request, ret, k)
            /\ \A t \in ReadyAt(request, ret, k) :
                  /\ TaskById(request, t).priority <= TaskById(request, ret[k]).priority
                  /\ TaskById(request, t).priority = TaskById(request, ret[k]).priority
                       => InsertionIndex(request, ret[k]) <= InsertionIndex(request, t)

\* C7 amended: the task emitted next is a ready task of highest priority,
\* and among the ready tasks of that priority the one with the smallest id
\* (in string order), whatever the insertion order.
C7_TieBySmallestId ==
    op = "topological_sort" =>
        \A k \in DOMAIN ret :
            /\ ret[k] \in ReadyAt(request, ret, k)
            /\ \A t \in ReadyAt(request, ret, k) :
                  /\ TaskById(request, t).priority <= TaskById(request, ret[k]).priority
                  /\ TaskById(request, t).priority = TaskById(request, ret[k]).priority
                       => ret[k] <= t

\* At some step two ready tasks share the highest priority, a ready task of
\* lower priority waits, and the first of the two in insertion order is not
\* the one with the smaller id.
C7_Witness ==
    /\ op = "topological_sort"
    /\ \E k \in DOMAIN ret :
          /\ \E t \in ReadyAt(request, ret, k) :
                /\ t # ret[k]
                /\ TaskById(request, t).priority = TaskById(request, ret[k]).priority
                /\ InsertionIndex(request, t) < InsertionIndex(request, ret[k])
          /\ \E t \in ReadyAt(request, ret, k) :
                TaskById(request, t).priority < TaskById(request, ret[k]).priority

(***************************************************************************)
(* C8: a depends_on id that names no task of the request has no effect:    *)
(* topological_sort(), calculate_value_impact() and solve() return what    *)
(* they return for the request with all such ids removed (for solve(): the *)
(* CP-SAT solver has the same possible answers, and each gives the same    *)
(* PlanResult), and none of them fails.                                    *)
(***************************************************************************)
C8_UnknownDepsHaveNoEffect ==
    /\ op = "topological_sort" => ret = topological_sort(WithoutUnknownDeps(request))
    /\ op = "calculate_value_impact" =>
          ret = calculate_value_impact(WithoutUnknownDeps(request))
    /\ op = "solve" =>
          /\ cp_outcomes(request) = cp_outcomes(WithoutUnknownDeps(request))
          /\ ret.kind = "PlanResult"
          /\ ret = solve(WithoutUnknownDeps(request), args)

\* A request with a dangling id beside a real edge, solved to a path.
C8_Witness ==
    /\ op = "solve"
    /\ HasUnknownDep(request)
    /\ \E t \in TaskIdsOf(request) : KnownDeps(request, t) # {}
    /\ ret.recommended_path # <<>>

FilesOf(req, id) == Range(TaskById(req, id).affected_files)

(***************************************************************************)
(* C4: the batch select_parallel_batch returns has no two distinct members *)
(* that share an affected file, has at most max_size members, and is empty *)
(* when max_size is 0 or negative.                                         *)
(***************************************************************************)
C4_BatchIsFileDisjointAndBounded ==
    op = "select_parallel_batch" =>
        /\ \A i, j \in DOMAIN ret :
              ret[i] # ret[j] => FilesOf(request, ret[i]) \cap FilesOf(request, ret[j]) = {}
        /\ args.max_size >= 0 => Len(ret) <= args.max_size
        /\ args.max_size <= 0 => ret = <<>>

\* A batch filled to max_size = 2 after a task that shares a file with a
\* member was passed over, with more tasks left in the list.
C4_Witness ==
    /\ op = "select_parallel_batch"
    /\ args.max_size = 2
    /\ Len(ret) = 2
    /\ Len(args.ordered_tasks) > 2
    /\ \E k \in DOMAIN args.ordered_tasks :
          /\ args.ordered_tasks[k] \notin Range(ret)
          /\ FilesOf(request, args.ordered_tasks[k]) \cap FilesOf(request, ret[1]) # {}

Scores(p) == <<p.speed_score, p.coverage_score, p.urgency_score>>

AtLeastEverywhereAndGreaterOnce(a, b) ==
    /\ \A k \in 1..3 : FLess(Scores(b)[k], Scores(a)[k]) \/ FEq(Scores(a)[k], Scores(b)[k])
    /\ \E k \in 1..3 : FLess(Scores(b)[k], Scores(a)[k])

(***************************************************************************)
(* C9: the list _compute_pareto_frontier returns contains no path that is  *)
(* dominated by another path of the same list, where A dominates B iff A   *)
(* is at least B on speed, coverage and urgency and strictly greater on at *)
(* least one.                                                              *)
(***************************************************************************)
C9_FrontierHasNoDominatedPath ==
    op = "_compute_pareto_frontier" =>
        \A i, j \in DOMAIN ret : ~AtLeastEverywhereAndGreaterOnce(ret[i], ret[j])

\* A candidate was dropped as dominated and two candidates with different
\* scores were kept.
C9_Witness ==
    /\ op = "_compute_pareto_frontier"
    /\ Len(ret) < Len(args)
    /\ \E i \in DOMAIN args : \E j \in DOMAIN ret :
          AtLeastEverywhereAndGreaterOnce(ret[j], args[i])
    /\ \E i, j \in DOMAIN ret : Scores(ret[i]) # Scores(ret[j])

(***************************************************************************)
(* C10.  The weighted sum of a path, a weight missing from the mapping     *)
(* counting as 1.0, and the members of a list that reach the maximum.      *)
(***************************************************************************)
WeightOr1(w, key) == IF key \in DOMAIN w THEN w[key] ELSE FInt(1)

WeightedSum(w, p) ==
    FAdd(FMul(WeightOr1(w, "speed"), p.speed_score),
         FAdd(FMul(WeightOr1(w, "coverage"), p.coverage_score),
              FMul(WeightOr1(w, "urgency"), p.urgency_score)))

Maximal(w, paths) ==
    {i \in DOMAIN paths :
        \A j \in DOMAIN paths : ~FLess(WeightedSum(w, paths[i]), WeightedSum(w, paths[j]))}

C11_SolveIsDeterministic ==
    op = "solve" =>
        \A other \in cp_outcomes(request) : solve(request, other) = ret

(***************************************************************************)
(* C12: whenever the schedule solver yields no candidate path, the         *)
(* PlanResult of solve() has an empty Pareto set, no recommended path, an  *)
(* empty immediate batch, and an explanation with a line beyond its        *)
(* heading that names the cause.                                           *)
(***************************************************************************)
C12_NoPathGivesEmptyResult ==
    (op = "solve" /\ args.status = "INFEASIBLE") =>
        /\ ret.pareto_paths = <<>>
        /\ ret.recommended_path = <<>>
        /\ ret.immediate_batch = <<>>
        /\ \E i \in DOMAIN ret.explanation :
              ret.explanation[i].pattern \notin {"## Planning Decision", ""}

(***************************************************************************)
(* C13: for every request of the data model (acyclic, non-negative         *)
(* estimates, any goal set, any available_hours), calculate_value_impact() *)
(* and solve() return without error, and every value_score and the speed,  *)
(* coverage and urgency score of every path lie between 0 and 100.         *)
(***************************************************************************)
InScoreRange(f) == ~FLess(f, FInt(0)) /\ ~FLess(FInt(100), f)

C13_ScoresWithinRange ==
    /\ op = "calculate_value_impact" =>
          \A t \in DOMAIN ret : ret[t].value_score >= 0 /\ ret[t].value_score <= 1000
    /\ op = "solve" =>
          /\ ret.kind = "PlanResult"
          /\ \A p \in PathsOf(ret) :
                /\ InScoreRange(p.speed_score)
                /\ InScoreRange(p.coverage_score)
                /\ InScoreRange(p.urgency_score)

(***************************************************************************)
(* C14: select_parallel_batch stops only when the batch has reached        *)
(* max_size and skips a rejected task without ending the walk: whenever    *)
(* the batch has fewer than max_size members, every task of the ordered    *)
(* list that is not in the batch shares a file with a batch member that    *)
(* precedes it in the list, or has a prerequisite outside the batch.       *)
(***************************************************************************)
C14_WalkSkipsAndContinues ==
    (op = "select_parallel_batch" /\ Len(ret) < args.max_size) =>
        \A k \in DOMAIN args.ordered_tasks :
            args.ordered_tasks[k] \notin Range(ret) =>
                \/ \E j \in 1..(k - 1) :
                      /\ args.ordered_tasks[j] \in Range(ret)
                      /\ FilesOf(request, args.ordered_tasks[j])
                           \cap FilesOf(request, args.ordered_tasks[k]) # {}
                \/ ~(KnownDeps(request, args.ordered_tasks[k]) \subseteq Range(ret))

\* Of three tasks the second was skipped for a file conflict and the third
\* admitted, the batch staying below max_size.
C14_Witness ==
    /\ op = "select_parallel_batch"
    /\ Len(args.ordered_tasks) = 3
    /\ args.max_size = 3
    /\ ret = <<args.ordered_tasks[1], args.ordered_tasks[3]>>
    /\ args.ordered_tasks[2] \notin Range(ret)
    /\ FilesOf(request, args.ordered_tasks[3]) # {}

\* transitive(T): the tasks that depend on T directly or through other tasks.
TransitivelyBlocked(req, id) ==
    LET edges == {<<t, d>> \in TaskIdsOf(req) \X TaskIdsOf(req) : d \in KnownDeps(req, t)}
    IN {t \in TaskIdsOf(req) : <<t, id>> \in DepClosure(edges, Len(req.tasks))}

(***************************************************************************)
(* C15: for every task T, blocked_goals(T) of calculate_value_impact() is  *)
(* exactly the set of goal ids whose task list contains T itself or a task *)
(* of transitive(T).                                                       *)
(***************************************************************************)
C15_BlockedGoalsIncludeOwnGoal ==
    op = "calculate_value_impact" =>
        \A t \in TaskIdsOf(request) :
            ret[t].blocked_goals =
                {request.goals[i].id : i \in
                    {k \in DOMAIN request.goals :
                        Range(request.goals[k].tasks)
                          \cap (TransitivelyBlocked(request, t) \cup {t}) # {}}}

(***************************************************************************)
(* C16: get_highest_value_tasks(limit) returns at most limit entries in    *)
(* non-increasing value_score order, and two entries of the same           *)
(* value_score appear in ascending task id order, whatever the order of    *)
(* the tasks in the request.                                               *)
(***************************************************************************)
C16_HighestValueOrder ==
    op = "get_highest_value_tasks" =>
        /\ args.limit >= 0 => Len(ret) <= args.limit
        /\ \A i, j \in DOMAIN ret :
              i < j =>
                 /\ ret[i].value_score >= ret[j].value_score
                 /\ ret[i].value_score = ret[j].value_score => ret[i].task_id < ret[j].task_id

(***************************************************************************)
(* C17: the task_sequence of the path solve_with_cpsat builds lists the    *)
(* tasks by assigned start time ascending; two tasks of the same start     *)
(* time stand by priority descending, and of the same priority too by id   *)
(* ascending.                                                              *)
(***************************************************************************)
C17_SequenceByStartPriorityId ==
    (op = "solve" /\ args.status = "OPTIMAL") =>
        \A p \in PathsOf(ret) :
            \A i, j \in DOMAIN p.task_sequence :
                i < j =>
                   LET a == p.task_sequence[i]
                       b == p.task_sequence[j]
                   IN /\ args.starts[a] <= args.starts[b]
                      /\ args.starts[a] = args.starts[b] =>
                            /\ TaskById(request, a).priority >= TaskById(request, b).priority
                            /\ TaskById(request, a).priority = TaskById(request, b).priority
                                 => a < b

(***************************************************************************)
(* C18: for a solver with rate-limited models, with Redis reachable and    *)
(* every read answered, check_solver_availability reports available        *)
(* exactly when some model of the solver has no current record, or a       *)
(* record that is not limited, or a record whose available_at_unix is at   *)
(* or before now; unavailable exactly when every model has a limited       *)
(* record that expires strictly after now.                                 *)
(***************************************************************************)
StoredFor(model) == env.store[normalized_model(model)]

HasLimitedRecordAfterNow(model) ==
    /\ StoredFor(model).kind = "present"
    /\ StoredFor(model).isLimited = <<TRUE>>
    /\ StoredFor(model).availableAtUnix # <<>>
    /\ StoredFor(model).availableAtUnix[1] > env.now_ms

EveryReadAnswered == \A k \in Keys : env.store[k].kind # "raises"

C18_AvailableIffSomeModelAvailable ==
    (/\ op = "check_solver_availability"
     /\ SOLVER_MODELS(args.solver) # <<>>
     /\ env.redis_reachable
     /\ EveryReadAnswered) =>
        LET models == Range(SOLVER_MODELS(args.solver)[1])
        IN /\ ret.available <=> \E m \in models : ~HasLimitedRecordAfterNow(m)
           /\ ~ret.available <=> \A m \in models : HasLimitedRecordAfterNow(m)

\* angrav is available through its last model alone, whose limit expires now.
C18_Witness ==
    /\ op = "check_solver_availability"
    /\ args.solver = "angrav"
    /\ env.redis_reachable
    /\ EveryReadAnswered
    /\ HasLimitedRecordAfterNow("gemini-2.0-flash-thinking-exp")
    /\ HasLimitedRecordAfterNow("gemini-2.0-flash-exp")
    /\ StoredFor("gemini-1.5-pro").kind = "present"
    /\ StoredFor("gemini-1.5-pro").isLimited = <<TRUE>>
    /\ StoredFor("gemini-1.5-pro").availableAtUnix = <<env.now_ms>>
    /\ ret.available

(***************************************************************************)
(* C19: when the rate-limit store fails on every call (Redis unreachable,  *)
(* or every read raising), every solver of the registry is reported        *)
(* available, and match_solver returns a match whose reason says that      *)
(* availability was assumed.                                               *)
(***************************************************************************)
ViewFailsOnEveryCall ==
    ~env.redis_reachable \/ \A k \in Keys : env.store[k].kind = "raises"

C19_UnreachableStoreAssumesAvailable ==
    ViewFailsOnEveryCall =>
        /\ op = "check_availability" => ret = TRUE
        /\ (op = "check_solver_availability" /\ args.solver \in SOLVERS) => ret.available
        /\ (op = "match_solver" /\ request.require_available) =>
              /\ ret.solver \in SOLVERS
              /\ ret.reason.text \in {"Redis unavailable, assuming available"}

(***************************************************************************)
(* C20: when the issue of a task carries tags, match_solver returns, with  *)
(* confidence 1.0 and an 'explicit tag' reason, the solver named by the    *)
(* first tag, in the order of the issue's tag list, that names a known     *)
(* solver and passes availability when required.                           *)
(***************************************************************************)
QualifyingTag(tag) ==
    /\ tag.name \in SOLVERS
    /\ (~request.require_available \/ check_availability(env, tag.name))

C20_FirstQualifyingTagWins ==
    (op = "match_solver" /\ request.issue.tags # <<>>) =>
        LET tags == request.issue.tags[1]
        IN \A i \in DOMAIN tags :
              (QualifyingTag(tags[i]) /\ \A j \in 1..(i - 1) : ~QualifyingTag(tags[j])) =>
                  /\ ret.solver = tags[i].name
                  /\ ret.confidence = FInt(1)
                  /\ ret.reason.text = "explicit tag #a"

(***************************************************************************)
(* C21: match_solver with require_available true, on a task whose issue    *)
(* yields no tags and whose summary begins with a word of a solver's       *)
(* summary_regex, returns that solver with confidence 0.9 and a 'summary   *)
(* regex match' reason ('Investigate ...' gives perplexity).               *)
(***************************************************************************)
RegexSolvers(summary) ==
    {SOLVER_REGISTRY[i].name : i \in {j \in DOMAIN SOLVER_REGISTRY :
                                        summary_regex_search(SOLVER_REGISTRY[j], summary)}}

C21_RegexMatchReturnsItsSolver ==
    (/\ op = "match_solver"
     /\ request.require_available
     /\ tag_set(request.issue) = {}) =>
        \A s \in RegexSolvers(request.task.summary) :
            /\ ret.solver = s
            /\ ret.confidence = Frac(9, 10)
            /\ ret.reason.text = "summary regex match on 'a'"

(***************************************************************************)
(* C22: with require_available true match_solver never returns a solver    *)
(* that fails availability; when no tag is taken and the solver whose      *)
(* regex matches the summary is unavailable, the match is decided by       *)
(* capability scoring; and a solver returned by capability scoring has     *)
(* max_complexity at least the task's complexity and passes availability.  *)
(***************************************************************************)
SolverNamed(name) ==
    SOLVER_REGISTRY[CHOOSE i \in DOMAIN SOLVER_REGISTRY : SOLVER_REGISTRY[i].name = name]

NoTagTaken ==
    \A i \in DOMAIN args.explicit_tags :
        ~(args.explicit_tags[i] \in SOLVERS /\ check_availability(env, args.explicit_tags[i]))

DecidedByCapability == ret.reason.text = "capability match (comp: a, score: b)"

BaseOfHours(h) ==
    IF h <= 1 THEN 2 ELSE IF h <= 4 THEN 4 ELSE IF h <= 8 THEN 6 ELSE IF h <= 16 THEN 8 ELSE 10

FileAdjustment(n) == IF n > 5 THEN 2 ELSE IF n > 2 THEN 1 ELSE 0

PriorityOffset(p) ==
    IF p = SHOW_STOPPER THEN 2 ELSE IF p = CRITICAL THEN 1 ELSE IF p = MINOR THEN 0 - 1 ELSE 0

ClampOnce(n) == IF n < 1 THEN 1 ELSE IF n > 10 THEN 10 ELSE n

C23_ComplexityClampedOnce ==
    op = "estimate_complexity" =>
        ret = ClampOnce(BaseOfHours(request.task.estimate_hours)
                          + FileAdjustment(Len(request.task.affected_files))
                          + PriorityOffset(request.task.priority))

(***************************************************************************)
(* C24: a match decided by capability scoring names a fallback: the        *)
(* fallback is not empty, differs from the chosen solver and is a          *)
(* best-scoring candidate among the others.                                *)
(***************************************************************************)
CandidateNames ==
    LET c == candidate_solvers(env, estimate_complexity(request.task), request.require_available)
    IN {c[i].name : i \in DOMAIN c}

ScoreOf(name) ==
    total_score(env, request.task, SolverNamed(name), estimate_complexity(request.task))

C24_CapabilityMatchHasFallback ==
    (op = "match_solver" /\ DecidedByCapability) =>
        /\ ret.fallback # <<>>
        /\ ret.fallback[1] # ret.solver
        /\ ret.fallback[1] \in CandidateNames
        /\ \A other \in CandidateNames \ {ret.solver} :
              ~FLess(ScoreOf(ret.fallback[1]), ScoreOf(other))

(***************************************************************************)
(* C25: for a task whose issue yields no tags and whose summary matches no *)
(* solver regex, if exactly one candidate solver supports the extension of *)
(* an affected file, capability scoring returns that solver (the CRITICAL  *)
(* 4-hour task touching ci.yml and deploy.sh is matched to jules).         *)
(***************************************************************************)
SupportsAFile(name) ==
    {suffix(f) : f \in Range(request.task.affected_files)}
        \cap SolverNamed(name).supported_file_types # {}

C25_OnlySupportingCandidateWins ==
    (/\ op = "match_solver"
     /\ tag_set(request.issue) = {}
     /\ RegexSolvers(request.task.summary) = {}) =>
        \A s \in CandidateNames :
            (SupportsAFile(s) /\ \A o \in CandidateNames \ {s} : ~SupportsAFile(o)) =>
                ret.solver = s /\ DecidedByCapability

(***************************************************************************)
(* C26: the ratio calibrate_estimate applies lies between 0.1 and 10: the  *)
(* calibrated estimate is at least 0.1 times and at most 10 times          *)
(* original_hours, for every history, solver and original_hours >= 0.      *)
(***************************************************************************)
C26_CalibrationRatioClamped ==
    op = "calibrate_estimate" =>
        /\ ~FLess(ret, FMul(Frac(1, 10), FInt(request.original_hours)))
        /\ ~FLess(FMul(FInt(10), FInt(request.original_hours)), ret)

(***************************************************************************)
(* C27: for a task X with no dependency edge to or from another task and   *)
(* no affected file shared with another task, the immediate batch of the   *)
(* request without X (max_parallel unchanged) is a subset of the immediate *)
(* batch of the request with X.                                            *)
(***************************************************************************)
Unrelated(req, x) ==
    \A t \in TaskIdsOf(req) \ {x} :
        /\ t \notin Range(TaskById(req, x).depends_on)
        /\ x \notin Range(TaskById(req, t).depends_on)
        /\ FilesOf(req, x) \cap FilesOf(req, t) = {}

WithoutTask(req, x) ==
    [req EXCEPT !.tasks = SelectSeq(req.tasks, LAMBDA t : t.id # x),
                !.goals = [g \in DOMAIN req.goals |->
                              [req.goals[g] EXCEPT
                                  !.tasks = SelectSeq(req.goals[g].tasks, LAMBDA t : t # x)]]]

\* The immediate batch solve() computes for a request.
BatchOf(req) == select_parallel_batch(req, topological_sort(req), req.max_parallel)

C27_RemovingUnrelatedShrinksBatch ==
    op = "solve" =>
        \A x \in TaskIdsOf(request) :
            Unrelated(request, x) =>
                Range(BatchOf(WithoutTask(request, x))) \subseteq Range(ret.immediate_batch)

\* Amended: unless X holds a place in a batch that is filled to max_parallel.
C27_RemovingUnrelatedShrinksUnfilledBatch ==
    op = "solve" =>
        \A x \in TaskIdsOf(request) :
            (/\ Unrelated(request, x)
             /\ ~(/\ x \in Range(ret.immediate_batch)
                  /\ Len(ret.immediate_batch) >= request.max_parallel)) =>
                Range(BatchOf(WithoutTask(request, x))) \subseteq Range(ret.immediate_batch)

\* An unrelated task in a batch of two under max_parallel 15, beside a file
\* conflict between the other two tasks.
C27_Witness ==
    /\ op = "solve"
    /\ \E x \in TaskIdsOf(request) :
          /\ Unrelated(request, x)
          /\ x \in Range(ret.immediate_batch)
          /\ Len(ret.immediate_batch) = 2
          /\ request.max_parallel = DefaultMaxParallel
          /\ Len(BatchOf(WithoutTask(request, x))) = 1

(***************************************************************************)
(* C28: for an acyclic request the total_hours of the path that            *)
(* solve_with_cpsat returns is the critical-path length of the dependency  *)
(* graph, the greatest sum of estimate_hours along a chain of known        *)
(* dependency edges, whatever max_parallel, available_hours and the files  *)
(* are; and every start is at least the end of each prerequisite.  (With   *)
(* available_hours 0 _build_path raises and there is no path.)             *)
(***************************************************************************)
MaxOfSet(S) == IF S = {} THEN 0 ELSE CHOOSE m \in S : \A o \in S : o <= m

\* The greatest sum of estimates along a chain that ends in task t.
RECURSIVE LongestChainTo(_, _)
LongestChainTo(req, t) ==
    TaskById(req, t).estimate_hours
        + MaxOfSet({LongestChainTo(req, d) : d \in KnownDeps(req, t)})

CriticalPathLength(req) == MaxOfSet({LongestChainTo(req, t) : t \in TaskIdsOf(req)})

Objectives == {"speed", "coverage", "urgency"}

\* weights = {'speed': 0.5, 'coverage': 0.5, 'urgency': 0.5}; weights[args.objective] = 2.0
cmd_solve_weights(objective) ==
    [k \in Objectives |-> IF k = objective THEN FInt(2) ELSE Frac(1, 2)]

AllWeightMaps == WeightMaps \cup {cmd_solve_weights(o) : o \in Objectives}

WithWeights(req, w) == [req EXCEPT !.objective_weights = w]

\* Estimates, one dependency edge and available_hours vary with the weights.
WeightRequests ==
    {PlanRequest([i \in 1..MaxTasks |-> Task(i, NORMAL, e[i], d[i], <<>>)],
                 DemoGoals, h, DefaultMaxParallel, w) :
        d \in OneEdgeDeps, e \in [TaskIds -> {1, 2}],
        h \in {0, DefaultAvailableHours}, w \in AllWeightMaps}

InitWeights ==
    /\ request \in WeightRequests
    /\ op = "new"
    /\ args = None
    /\ ret = None
    /\ env = None

NextWeights == Solve

SpecWeights == InitWeights /\ [][NextWeights]_vars

Complexities == 1..10

C30_JulesAlwaysCandidate ==
    /\ op # "new" =>
          /\ check_availability(env, "jules")
          /\ check_solver_availability(env, "jules").available
          /\ \A complexity \in Complexities, require_available \in BOOLEAN :
                LET c == candidate_solvers(env, complexity, require_available)
                IN \E i \in DOMAIN c : c[i].name = "jules"
    /\ op = "match_solver" =>
          /\ estimate_complexity(request.task) \in Complexities
          /\ "jules" \in CandidateNames
          /\ ret.reason.text # "fallback to most capable"
          /\ ~(ret.solver = "jules" /\ ret.confidence = Frac(3, 10)
                                    /\ ret.fallback = <<"gemini">>)

\* A task of complexity 10 while gemini and angrav are rate limited: jules
\* is the only candidate and the decision is a capability match on jules.
C30_Witness ==
    /\ op = "match_solver"
    /\ request.require_available
    /\ estimate_complexity(request.task) = 10
    /\ ~check_availability(env, "gemini")
    /\ ~check_availability(env, "angrav")
    /\ CandidateNames = {"jules"}
    /\ DecidedByCapability
    /\ ret.solver = "jules"

====
